---- MODULE Spec2Model ----
(***************************************************************************)
(* A model of the signal-function library frp.js (rodrigosetti/rpjs).      *)
(*                                                                         *)
(* A signal function (SF) is a JavaScript closure.  The model keeps every  *)
(* closure as a node of `heap` (its captured variables are the node's      *)
(* fields) and refers to it by its index, so that one closure passed to    *)
(* two combinators is one node, as in the source.  Calling an SF is the    *)
(* recursive operator Call, which returns the value, the heap after the    *)
(* call, the calls it made (in order of return) and whether it threw.      *)
(*                                                                         *)
(* JavaScript values are tagged records: numbers are integers (dt is       *)
(* counted in tenths, so the default step 0.1 is 1), and arithmetic on     *)
(* them is exact.                                                          *)
(***************************************************************************)
EXTENDS Integers, Sequences, FiniteSets, TLC

VARIABLES
    heap,    \* the closures built so far: Seq of nodes
    root,    \* the SF under test / react's parameter sf
    hist,    \* one record per completed call of root
    pc,      \* where the driver stands
    input,   \* react's parameter input
    output,  \* the third actual argument handed to react (no parameter takes it)
    step,    \* react: var step
    cont,    \* react: var cont
    pos,     \* react, array path: index of the next element _.forEach visits
    nInput   \* react: how many times input() has been called

vars == <<heap, root, hist, pc, input, output, step, cont, pos, nInput>>

----------------------------------------------------------------------------
(* Bounds of the model *)

MaxCalls == 3      \* calls of the root SF in one behaviour
BallSteps == 30    \* steps of a ball in one behaviour (the tutorial's trace has 30)
MaxLoop == 32      \* rounds of react's loop followed when the generator is constant
MaxDt == 2         \* dt ranges over 0..MaxDt
MaxArr == 3        \* react's array input has at most MaxArr steps

----------------------------------------------------------------------------
(* JavaScript values *)

Num(n) == [t |-> "num", n |-> n]
Bool(b) == [t |-> "bool", b |-> b]
Arr(a) == [t |-> "arr", a |-> a]
SFRef(id) == [t |-> "sf", id |-> id]
Undef == [t |-> "undef"]
NaN == [t |-> "nan"]
Str == [t |-> "str"]       \* a string, its text left out
Thrown == [t |-> "throw"]  \* stands for "no value: the call threw"
Obj(v, p) == [t |-> "obj", vel |-> v, pos |-> p]   \* {vel: v, pos: p}
Ref(id) == [t |-> "ref", id |-> id]   \* an array the client built: the heap node of its elements

\* ToBoolean
Truthy(v) ==
    CASE v.t = "bool" -> v.b
      [] v.t = "num" -> v.n # 0
      [] v.t \in {"undef", "nan", "throw"} -> FALSE
      [] OTHER -> TRUE

\* a || b
OrElse(a, b) == IF Truthy(a) THEN a ELSE b

\* dt * v, with dt a number
Times(dt, v) ==
    CASE v.t = "num" -> Num(dt * v.n)
      [] v.t = "bool" -> Num(IF v.b THEN dt ELSE 0)
      [] OTHER -> NaN

\* a + b, with b the result of Times
Plus(a, b) ==
    CASE a.t \in {"arr", "str", "sf"} -> Str
      [] a.t = "num" /\ b.t = "num" -> Num(a.n + b.n)
      [] a.t = "bool" /\ b.t = "num" -> Num((IF a.b THEN 1 ELSE 0) + b.n)
      [] OTHER -> NaN

\* the array a client built, kept on the heap for the closures that share it
array(a) == [kind |-> "array", a |-> a]

\* the value read through v: the elements now held by the array v refers to
Deref(h, v) == IF v.t = "ref" THEN Arr(h[v.id].a) ELSE v

\* accum[i], i counted from 1
Index(accum, i) ==
    IF accum.t = "arr" /\ i \in 1..Len(accum.a) THEN accum.a[i] ELSE Undef

----------------------------------------------------------------------------
(* One call of an SF made during a step: which closure, with what,         *)
(* returning what                                                          *)

\* sub: the calls made by this call's body, in order
Ev(id, dt, in, out, sub) ==
    [op |-> "call", id |-> id, dt |-> dt, in |-> in, out |-> out, sub |-> sub]

\* What a call returns
Ret(out, h, log) == [out |-> out, h |-> h, log |-> log, err |-> FALSE]
Throw(h, log) == [out |-> Thrown, h |-> h, log |-> log, err |-> TRUE]

----------------------------------------------------------------------------
(* The closures.  Each combinator of frp.js returns a closure; the node    *)
(* holds what the closure captured.                                        *)

\* _.constant(c)
constant(c) == [kind |-> "constant", c |-> c]

\* integral(c): var accum = c || 0
integral(c) == [kind |-> "integral", c |-> c, accum |-> OrElse(c, Num(0))]

\* feedback(initValue, sf)
feedback(initValue, sf) == [kind |-> "feedback", initValue |-> initValue, sf |-> sf]

\* fanout(f, sf1, ..., sfN): f = _.first(arguments), sfs = _.rest(arguments)
fanout(f, sfs) == [kind |-> "fanout", f |-> f, sfs |-> sfs]

\* compose(sf1, ..., sfN): sfs = arguments
compose(sfs) == [kind |-> "compose", sfs |-> sfs]

\* lift(f); i is the counter a client's f closes over (var i = 0 in the tests)
lift(f) == [kind |-> "lift", f |-> f, i |-> 0]

\* dSwitch(sf, predicate, makeSF): var switchedSF (undefined)
dSwitch(sf, predicate, makeSF) ==
    [kind |-> "dSwitch", sf |-> sf, predicate |-> predicate, makeSF |-> makeSF,
     switchedSF |-> Undef]

\* A closure just built is the last node of the heap
Alloc(h, node) == Append(h, node)

\* faulty variant: compose(integral()): the input is integrated, not 1
timeOfInput(h) ==
    LET h1 == Alloc(h, integral(Undef))
    IN Alloc(h1, compose(<<Len(h1)>>))

\* time(): compose(constant(1), integral()), built on top of the heap h
time(h) ==
    LET h1 == Alloc(h, constant(Num(1)))
        h2 == Alloc(h1, integral(Undef))
    IN Alloc(h2, compose(<<Len(h1), Len(h2)>>))

----------------------------------------------------------------------------
(* The balls of the examples and of the tutorial.  Their numbers are kept  *)
(* exact as whole numbers of small units: with dt in tenths, a velocity is *)
(* counted in 1/(100 * Unit) and a position in 1/(1000 * Unit), and Unit   *)
(* leaves room for the two decimal places that two bounces add.            *)

Unit == 10 * 10
PerSecond == 100 * Unit     \* the velocity 1
Metre == 1000 * Unit        \* the position 1
Gravity == -98 * Unit       \* rp.constant(-9.8)

\* -0.9 * ball.vel
Reflect(v) ==
    IF v.t = "num" /\ (9 * v.n) % 10 = 0 THEN Num(-((9 * v.n) \div 10)) ELSE NaN

\* makeFallingBall(initialPos, initialVel), built on top of the heap h:
\* velocity, position (over the same velocity closure) and their fanout
makeFallingBall(h, initialPos, initialVel) ==
    LET h1 == Alloc(h, constant(Num(Gravity)))
        h2 == Alloc(h1, integral(initialVel))
        velocity == Alloc(h2, compose(<<Len(h1), Len(h2)>>))
        h4 == Alloc(velocity, integral(initialPos))
        position == Alloc(h4, compose(<<Len(velocity), Len(h4)>>))
    IN Alloc(position, fanout("ball", <<Len(velocity), Len(position)>>))

\* bouncingBall(initialPos, initialVel): the falling ball under a switch
\* that replaces it by bouncingBall(0, -0.9 * ball.vel) when ball.pos <= 0
bouncingBall(h, initialPos, initialVel) ==
    LET fallingBall == makeFallingBall(h, initialPos, initialVel)
    IN Alloc(fallingBall, dSwitch(Len(fallingBall), "posLe0", "mkBounce"))

----------------------------------------------------------------------------
(* Client functions: what callers hand to lift, fanout and dSwitch.  Their *)
(* forms are those of the tests, the examples and the tutorial.            *)

Limit == 2       \* the tests stop at i++ < 100
StopTime == 3    \* the examples stop at t < 10 (the tutorial at t < 3)
Threshold == 2   \* the switch's predicate: value >= Threshold
TutorialTime == 30   \* the tutorial stops at t < 3, in tenths

\* f(value) for lift: the result and the client's counter afterwards
LiftF(n, value) ==
    CASE n.f = "id" -> [out |-> value, i |-> n.i, err |-> FALSE]
      [] n.f = "inc" -> [out |-> Plus(value, Num(1)), i |-> n.i, err |-> FALSE]
      [] n.f = "countLt" -> [out |-> Bool(n.i < Limit), i |-> n.i + 1, err |-> FALSE]
      [] n.f = "ltT" ->
           [out |-> Bool(value.t = "num" /\ value.n < StopTime), i |-> n.i,
            err |-> FALSE]
      [] n.f = "ltTutorial" ->
           [out |-> Bool(value.t = "num" /\ value.n < TutorialTime), i |-> n.i,
            err |-> FALSE]
      [] n.f = "log" -> [out |-> Undef, i |-> n.i, err |-> FALSE]
      [] n.f = "checked" ->
           \* an f that rejects 0 with an exception
           IF value = Num(0) THEN [out |-> Thrown, i |-> n.i, err |-> TRUE]
           ELSE [out |-> value, i |-> n.i, err |-> FALSE]
      [] OTHER -> [out |-> Thrown, i |-> n.i, err |-> TRUE]

\* f.apply(f, outs) for fanout
FanF(f, outs) ==
    CASE f = "list" -> [out |-> Arr(outs), err |-> FALSE]
      [] f = "first" -> [out |-> IF Len(outs) > 0 THEN outs[1] ELSE Undef, err |-> FALSE]
      [] f = "firstChecked" ->
           \* a combiner that rejects 0 with an exception
           IF outs[1] = Num(0) THEN [out |-> Thrown, err |-> TRUE]
           ELSE [out |-> outs[1], err |-> FALSE]
      [] f = "ball" -> [out |-> Obj(outs[1], outs[2]), err |-> FALSE]
      [] OTHER -> [out |-> Thrown, err |-> TRUE]

\* predicate(value) for dSwitch
Predicate(p, value) ==
    CASE p = "ge" -> [out |-> Bool(value.t = "num" /\ value.n >= Threshold), err |-> FALSE]
      [] p = "truthy" -> [out |-> value, err |-> FALSE]
      [] p = "geChecked" ->
           \* a predicate that rejects negative values with an exception
           IF value.t = "num" /\ value.n < 0 THEN [out |-> Thrown, err |-> TRUE]
           ELSE [out |-> Bool(value.t = "num" /\ value.n >= Threshold), err |-> FALSE]
      [] p = "posLe0" ->
           [out |-> Bool(value.pos.t = "num" /\ value.pos.n <= 0), err |-> FALSE]
      [] OTHER -> [out |-> Thrown, err |-> TRUE]

\* makeSF(value) for dSwitch: the value returned and the heap with the
\* closures it built
MakeSF(m, h, value) ==
    CASE m = "mkIntegral" ->
           [out |-> SFRef(Len(h) + 1), h |-> Alloc(h, integral(value)), err |-> FALSE]
      [] m = "mkConstant" ->
           [out |-> SFRef(Len(h) + 1), h |-> Alloc(h, constant(value)), err |-> FALSE]
      [] m = "mkSwitch" ->
           \* recursive, as bouncingBall: a switch over a fresh integral
           LET h1 == Alloc(h, integral(Num(0)))
               h2 == Alloc(h1, dSwitch(Len(h1), "ge", "mkSwitch"))
           IN [out |-> SFRef(Len(h2)), h |-> h2, err |-> FALSE]
      [] m = "mkUndefined" -> [out |-> Undef, h |-> h, err |-> FALSE]
      [] m = "mkChecked" ->
           \* a makeSF that rejects values not above Threshold with an exception
           IF value.t = "num" /\ value.n > Threshold
           THEN [out |-> SFRef(Len(h) + 1), h |-> Alloc(h, integral(value)), err |-> FALSE]
           ELSE [out |-> Thrown, h |-> h, err |-> TRUE]
      [] m = "mkBounce" ->
           LET h1 == bouncingBall(h, Num(0), Reflect(value.vel))
           IN [out |-> SFRef(Len(h1)), h |-> h1, err |-> FALSE]
      [] OTHER -> [out |-> Thrown, h |-> h, err |-> TRUE]

\* A client function's call, as the log keeps it
CEv(op, id, args, out) == [op |-> op, id |-> id, args |-> args, out |-> out]

----------------------------------------------------------------------------
(* Calling a closure *)

RECURSIVE Call(_, _, _, _)
RECURSIVE composeEach(_, _, _, _, _, _)
RECURSIVE fanoutMap(_, _, _, _, _, _, _)

\* function () { return c; }
constantSF(h, id, dt, value) == Ret(h[id].c, h, << >>)

\* faulty variant: return accum[i] + (dt * v): a missing slot is not made 0
integralElemBare(accum, dt, v, i) == Plus(Index(accum, i), Times(dt, v))

\* function (v, i) { return (accum[i] || 0) + (dt * v); }
integralElem(accum, dt, v, i) ==
    Plus(OrElse(Index(accum, i), Num(0)), Times(dt, v))

\* faulty variant: the accumulator returned is the one before the update
integralSFPre(h, id, dt, value) ==
    LET accum == h[id].accum
        new == IF value.t = "arr"
               THEN Arr([i \in 1..Len(value.a) |->
                            integralElem(accum, dt, value.a[i], i)])
               ELSE Plus(accum, Times(dt, value))
    IN Ret(accum, [h EXCEPT ![id].accum = new], << >>)

\* faulty variant: the slots of accum beyond the input's length are kept
integralSFKeep(h, id, dt, value) ==
    LET accum == h[id].accum
        kept == IF accum.t = "arr" /\ value.t = "arr" /\ Len(accum.a) > Len(value.a)
                THEN SubSeq(accum.a, Len(value.a) + 1, Len(accum.a))
                ELSE << >>
        new == IF value.t = "arr"
               THEN Arr([i \in 1..Len(value.a) |->
                            integralElem(accum, dt, value.a[i], i)] \o kept)
               ELSE Plus(accum, Times(dt, value))
    IN Ret(new, [h EXCEPT ![id].accum = new], << >>)

\* faulty variant: accum[i] = (accum[i] || 0) + (dt * v) for each slot, return
\* accum: while accum is still the seed array, the seed is written in place
integralSFInPlace(h, id, dt, value) ==
    LET accum == Deref(h, h[id].accum)
        val == Deref(h, value)
        new == IF val.t = "arr"
               THEN Arr([i \in 1..Len(val.a) |->
                            integralElem(accum, dt, val.a[i], i)])
               ELSE Plus(accum, Times(dt, val))
    IN IF h[id].accum.t = "ref" /\ val.t = "arr"
       THEN Ret(h[id].accum, [h EXCEPT ![h[id].accum.id].a = new.a], << >>)
       ELSE Ret(new, [h EXCEPT ![id].accum = new], << >>)

\* integral's closure: accum and value are read, and accum is bound to the
\* array _.map built or to the sum; no array is written
integralSF(h, id, dt, value) ==
    LET accum == Deref(h, h[id].accum)
        val == Deref(h, value)
        new == IF val.t = "arr"
               THEN Arr([i \in 1..Len(val.a) |->
                            integralElem(accum, dt, val.a[i], i)])
               ELSE Plus(accum, Times(dt, val))
    IN Ret(new, [h EXCEPT ![id].accum = new], << >>)

\* faulty variant: the external input is fed to sf
feedbackSFInput(h, id, dt, value) ==
    LET r == Call(h, h[id].sf, dt, value)
    IN IF r.err THEN r
       ELSE Ret(r.out, [r.h EXCEPT ![id].initValue = r.out], r.log)

\* feedback's closure: function (dt), the input value is no parameter
feedbackSF(h, id, dt, value) ==
    LET Returned(r) ==
            IF r.err THEN r
            ELSE Ret(r.out, [r.h EXCEPT ![id].initValue = r.out], r.log)
    IN Returned(Call(h, h[id].sf, dt, h[id].initValue))

RECURSIVE fanoutMapChained(_, _, _, _, _, _, _)
\* faulty variant: each SF is given the output of the one before it
fanoutMapChained(h, sfs, i, dt, value, outs, log) ==
    IF i > Len(sfs) THEN Ret(Arr(outs), h, log)
    ELSE LET r == Call(h, sfs[i], dt, value)
         IN IF r.err THEN Throw(r.h, log \o r.log)
            ELSE fanoutMapChained(r.h, sfs, i + 1, dt, r.out, Append(outs, r.out),
                                  log \o r.log)

\* _.map(sfs, function (sf) { return sf(dt, value); }), from element i on
fanoutMap(h, sfs, i, dt, value, outs, log) ==
    IF i > Len(sfs) THEN Ret(Arr(outs), h, log)
    ELSE LET Returned(r) ==
                 IF r.err THEN Throw(r.h, log \o r.log)
                 ELSE fanoutMap(r.h, sfs, i + 1, dt, value, Append(outs, r.out),
                                log \o r.log)
         IN Returned(Call(h, sfs[i], dt, value))

\* fanout's closure
fanoutSF(h, id, dt, value) ==
    LET Applied(m, a, log) == IF a.err THEN Throw(m.h, log) ELSE Ret(a.out, m.h, log)
        Logged(m, a) == Applied(m, a, Append(m.log, CEv("f", id, m.out.a, a.out)))
        Mapped(m) == IF m.err THEN m ELSE Logged(m, FanF(h[id].f, m.out.a))
    IN Mapped(fanoutMap(h, h[id].sfs, 1, dt, value, << >>, << >>))

RECURSIVE composeEachKeep(_, _, _, _, _, _)
\* faulty variant: function (sf) { sf(dt, value); }: value is never assigned
composeEachKeep(h, sfs, i, dt, value, log) ==
    IF i > Len(sfs) THEN Ret(value, h, log)
    ELSE LET r == Call(h, sfs[i], dt, value)
         IN IF r.err THEN Throw(r.h, log \o r.log)
            ELSE composeEachKeep(r.h, sfs, i + 1, dt, value, log \o r.log)

RECURSIVE composeEachRight(_, _, _, _, _, _)
\* faulty variant: _.forEachRight: the SFs are called from the last to the first
composeEachRight(h, sfs, i, dt, value, log) ==
    IF i > Len(sfs) THEN Ret(value, h, log)
    ELSE LET r == Call(h, sfs[Len(sfs) + 1 - i], dt, value)
         IN IF r.err THEN Throw(r.h, log \o r.log)
            ELSE composeEachRight(r.h, sfs, i + 1, dt, r.out, log \o r.log)

RECURSIVE composeEachIndex(_, _, _, _, _, _)
\* faulty variant: function (sf, i) { value = sf(dt * (i + 1), value); }: the
\* step handed down grows with the SF's place in the composition
composeEachIndex(h, sfs, i, dt, value, log) ==
    IF i > Len(sfs) THEN Ret(value, h, log)
    ELSE LET r == Call(h, sfs[i], dt * i, value)
         IN IF r.err THEN Throw(r.h, log \o r.log)
            ELSE composeEachIndex(r.h, sfs, i + 1, dt, r.out, log \o r.log)

\* _.forEach(sfs, function (sf) { value = sf(dt, value); }), from element i on
composeEach(h, sfs, i, dt, value, log) ==
    IF i > Len(sfs) THEN Ret(value, h, log)
    ELSE LET Returned(r) ==
                 IF r.err THEN Throw(r.h, log \o r.log)
                 ELSE composeEach(r.h, sfs, i + 1, dt, r.out, log \o r.log)
         IN Returned(Call(h, sfs[i], dt, value))

\* compose's closure
composeSF(h, id, dt, value) == composeEach(h, h[id].sfs, 1, dt, value, << >>)

\* lift's closure
liftSF(h, id, dt, value) ==
    LET Applied(a, log, h1) == IF a.err THEN Throw(h1, log) ELSE Ret(a.out, h1, log)
        Returned(a) ==
            Applied(a, <<CEv("f", id, <<value>>, a.out)>>, [h EXCEPT ![id].i = a.i])
    IN Returned(LiftF(h[id], value))

\* switchedSF(dt, value): a TypeError when switchedSF is no function
callValue(h, fv, dt, value) ==
    IF fv.t = "sf" THEN Call(h, fv.id, dt, value) ELSE Throw(h, << >>)

\* faulty variant: an immediate switch: the triggering call returns the new SF's output
dSwitchOpenNow(h, id, dt, value) ==
    LET r == Call(h, h[id].sf, dt, value)
    IN IF r.err THEN r
       ELSE LET p == Predicate(h[id].predicate, r.out)
                log1 == Append(r.log, CEv("predicate", id, <<r.out>>, p.out))
            IN IF p.err THEN Throw(r.h, log1)
               ELSE IF Truthy(p.out)
               THEN LET m == MakeSF(h[id].makeSF, r.h, r.out)
                        log2 == Append(log1, CEv("makeSF", id, <<r.out>>, m.out))
                        h2 == [m.h EXCEPT ![id].switchedSF = m.out]
                    IN IF m.err THEN Throw(m.h, log2)
                       ELSE IF m.out.t = "sf"
                       THEN LET q == Call(h2, m.out.id, dt, value)
                            IN [q EXCEPT !.log = log2 \o q.log]
                       ELSE Ret(r.out, h2, log2)
               ELSE Ret(r.out, r.h, log1)

\* faulty variant: switchedSF = true before makeSF is called: a makeSF that
\* throws leaves the switch closed over no SF
dSwitchOpenMarked(h, id, dt, value) ==
    LET r == Call(h, h[id].sf, dt, value)
    IN IF r.err THEN r
       ELSE LET p == Predicate(h[id].predicate, r.out)
                log1 == Append(r.log, CEv("predicate", id, <<r.out>>, p.out))
            IN IF p.err THEN Throw(r.h, log1)
               ELSE IF Truthy(p.out)
               THEN LET m == MakeSF(h[id].makeSF, r.h, r.out)
                        log2 == Append(log1, CEv("makeSF", id, <<r.out>>, m.out))
                    IN IF m.err
                       THEN Throw([m.h EXCEPT ![id].switchedSF = Bool(TRUE)], log2)
                       ELSE Ret(r.out, [m.h EXCEPT ![id].switchedSF = m.out], log2)
               ELSE Ret(r.out, r.h, log1)

\* faulty variant: makeSF is given the switch's input, not sf's output
dSwitchOpenInput(h, id, dt, value) ==
    LET r == Call(h, h[id].sf, dt, value)
    IN IF r.err THEN r
       ELSE LET p == Predicate(h[id].predicate, r.out)
                log1 == Append(r.log, CEv("predicate", id, <<r.out>>, p.out))
            IN IF p.err THEN Throw(r.h, log1)
               ELSE IF Truthy(p.out)
               THEN LET m == MakeSF(h[id].makeSF, r.h, value)
                        log2 == Append(log1, CEv("makeSF", id, <<value>>, m.out))
                    IN IF m.err THEN Throw(m.h, log2)
                       ELSE Ret(r.out, [m.h EXCEPT ![id].switchedSF = m.out], log2)
               ELSE Ret(r.out, r.h, log1)

\* faulty variant: a throw of predicate or makeSF undoes sf's step
dSwitchOpenUndo(h, id, dt, value) ==
    LET r == Call(h, h[id].sf, dt, value)
    IN IF r.err THEN r
       ELSE LET p == Predicate(h[id].predicate, r.out)
                log1 == Append(r.log, CEv("predicate", id, <<r.out>>, p.out))
            IN IF p.err THEN Throw(h, log1)
               ELSE IF Truthy(p.out)
               THEN LET m == MakeSF(h[id].makeSF, r.h, r.out)
                        log2 == Append(log1, CEv("makeSF", id, <<r.out>>, m.out))
                    IN IF m.err THEN Throw(h, log2)
                       ELSE Ret(r.out, [m.h EXCEPT ![id].switchedSF = m.out], log2)
               ELSE Ret(r.out, r.h, log1)

\* faulty variant: switchedSF = makeSF(value) || sf: the switch closes
\* whatever makeSF returns
dSwitchOpenFallback(h, id, dt, value) ==
    LET r == Call(h, h[id].sf, dt, value)
    IN IF r.err THEN r
       ELSE LET p == Predicate(h[id].predicate, r.out)
                log1 == Append(r.log, CEv("predicate", id, <<r.out>>, p.out))
            IN IF p.err THEN Throw(r.h, log1)
               ELSE IF Truthy(p.out)
               THEN LET m == MakeSF(h[id].makeSF, r.h, r.out)
                        log2 == Append(log1, CEv("makeSF", id, <<r.out>>, m.out))
                    IN IF m.err THEN Throw(m.h, log2)
                       ELSE Ret(r.out,
                                [m.h EXCEPT ![id].switchedSF = OrElse(m.out, SFRef(h[id].sf))],
                                log2)
               ELSE Ret(r.out, r.h, log1)

\* dSwitch's closure, the branch taken while switchedSF is falsy
dSwitchOpen(h, id, dt, value) ==
    LET Made(r, m, log2) ==
            IF m.err THEN Throw(m.h, log2)
            ELSE Ret(r.out, [m.h EXCEPT ![id].switchedSF = m.out], log2)
        Make(r, log1, m) ==
            Made(r, m, Append(log1, CEv("makeSF", id, <<r.out>>, m.out)))
        Tested(r, p, log1) ==
            IF p.err THEN Throw(r.h, log1)
            ELSE IF Truthy(p.out)
            THEN Make(r, log1, MakeSF(h[id].makeSF, r.h, r.out))
            ELSE Ret(r.out, r.h, log1)
        Test(r, p) ==
            Tested(r, p, Append(r.log, CEv("predicate", id, <<r.out>>, p.out)))
        Returned(r) ==
            IF r.err THEN r ELSE Test(r, Predicate(h[id].predicate, r.out))
    IN Returned(Call(h, h[id].sf, dt, value))

\* faulty variant: switchedSF is never tested: every call takes the open branch
dSwitchSFNoTest(h, id, dt, value) == dSwitchOpen(h, id, dt, value)

\* dSwitch's closure
dSwitchSF(h, id, dt, value) ==
    IF Truthy(h[id].switchedSF)
    THEN callValue(h, h[id].switchedSF, dt, value)
    ELSE dSwitchOpen(h, id, dt, value)

\* sf(dt, value) for the closure h[id]; the log is this one call
Call(h, id, dt, value) ==
    LET k == h[id].kind
        Logged(r) == [r EXCEPT !.log = <<Ev(id, dt, value, r.out, r.log)>>]
    IN Logged(CASE k = "constant" -> constantSF(h, id, dt, value)
                [] k = "integral" -> integralSF(h, id, dt, value)
                [] k = "feedback" -> feedbackSF(h, id, dt, value)
                [] k = "fanout" -> fanoutSF(h, id, dt, value)
                [] k = "compose" -> composeSF(h, id, dt, value)
                [] k = "lift" -> liftSF(h, id, dt, value)
                [] k = "dSwitch" -> dSwitchSF(h, id, dt, value))

----------------------------------------------------------------------------
(* The SFs under test: a heap and its root closure *)

Graph(h) == [h |-> h, root |-> Len(h)]

Nums == {Num(n) : n \in -1..1}
DTs == 0..MaxDt
Inputs == Nums \cup {Undef}

\* the constituents the compositions are built from
Leaf(k) ==
    CASE k = 1 -> integral(Num(0))
      [] k = 2 -> lift("inc")
      [] k = 3 -> constant(Num(1))
      [] k = 4 -> integral(Num(1))

\* N fresh constituents under one combinator node
Under(ks, top) ==
    Graph(Append([i \in 1..Len(ks) |-> Leaf(ks[i])], top))

Tuples(n) == [1..n -> 1..2]
Ids(n) == [i \in 1..n |-> i]

IntegralGraphs == {Graph(<<integral(c)>>) : c \in Nums \cup {Num(2), Undef}}

FeedbackGraphs ==
    {Graph(<<Leaf(k), feedback(x0, 1)>>) : k \in 1..2, x0 \in {Num(0), Num(1)}}
    \cup {Graph(<<lift("inc"), integral(Num(0)), compose(<<1, 2>>), feedback(Num(1), 3)>>)}

ComposeGraphs ==
    {Under(ks, compose(Ids(Len(ks)))) : ks \in Tuples(1) \cup Tuples(2)}
    \cup {\* three SFs, time(), one closure given twice, a composition of compositions
          Under(<<1, 2, 4>>, compose(<<1, 2, 3>>)),
          Under(<<3, 1>>, compose(<<1, 2>>)),
          Graph(<<integral(Num(0)), compose(<<1, 1>>)>>),
          Graph(<<integral(Num(0)), lift("inc"), compose(<<1, 2>>), integral(Num(1)),
                  compose(<<3, 4>>)>>)}

FanoutGraphs ==
    {Under(ks, fanout("list", Ids(Len(ks)))) : ks \in Tuples(1) \cup Tuples(2)}
    \cup {\* three SFs, no SF at all, one closure given twice, and (as the
          \* examples' velocity) one closure given to fanout and to a composition
          Under(<<1, 2, 4>>, fanout("list", <<1, 2, 3>>)),
          Graph(<<fanout("list", << >>)>>),
          Graph(<<integral(Num(0)), fanout("list", <<1, 1>>)>>),
          Graph(<<integral(Num(0)), integral(Num(1)), compose(<<1, 2>>),
                  fanout("list", <<1, 3>>)>>)}

Makers == {"mkIntegral", "mkConstant", "mkSwitch", "mkUndefined"}

SwitchGraphs ==
    {Graph(<<integral(Num(0)), dSwitch(1, "ge", mk)>>) : mk \in Makers}
    \cup {Graph(<<lift("id"), dSwitch(1, "truthy", mk)>>) : mk \in Makers}
    \cup {\* a switch below a composition
          Graph(<<lift("inc"), integral(Num(0)), dSwitch(2, "ge", "mkIntegral"),
                  compose(<<1, 3>>)>>)}

Graphs ==
    IntegralGraphs \cup FeedbackGraphs \cup ComposeGraphs \cup FanoutGraphs
        \cup SwitchGraphs

----------------------------------------------------------------------------
(* The SF called directly, step after step *)

InitOn(gs) ==
    /\ \E g \in gs : heap = g.h /\ root = g.root
    /\ hist = << >>
    /\ pc = "call"
    /\ input = Undef
    /\ output = Undef
    /\ step = Undef
    /\ cont = Bool(TRUE)
    /\ pos = 1
    /\ nInput = 0

\* What hist keeps of one call of root: the call, the heap before it
Done(r, h) == [ev |-> r.log[1], pre |-> h, err |-> r.err]

\* root(dt, value)
CallSF(dt, value) ==
    /\ pc = "call"
    /\ Len(hist) < MaxCalls
    /\ LET r == Call(heap, root, dt, value)
       IN /\ heap' = r.h
          /\ hist' = Append(hist, Done(r, heap))
    /\ UNCHANGED <<root, pc, input, output, step, cont, pos, nInput>>

Next == \E dt \in DTs, value \in Inputs : CallSF(dt, value)

Init == InitOn(Graphs)
Spec == Init /\ [][Next]_vars

InitIntegral == InitOn(IntegralGraphs)
SpecIntegral == InitIntegral /\ [][Next]_vars

InitFeedback == InitOn(FeedbackGraphs)
SpecFeedback == InitFeedback /\ [][Next]_vars

InitCompose == InitOn(ComposeGraphs)
SpecCompose == InitCompose /\ [][Next]_vars

InitFanout == InitOn(FanoutGraphs)
SpecFanout == InitFanout /\ [][Next]_vars

\* the switches are stepped on numbers
NextSwitch == \E dt \in DTs, value \in Nums : CallSF(dt, value)

InitSwitch == InitOn(SwitchGraphs)
SpecSwitch == InitSwitch /\ [][NextSwitch]_vars

----------------------------------------------------------------------------
(* Reading the history *)

RECURSIVE Within(_)
\* a call and every call made below it
Within(e) ==
    {e} \cup UNION {IF e.sub[i].op = "call" THEN Within(e.sub[i]) ELSE {e.sub[i]}
                    : i \in 1..Len(e.sub)}

\* every call of step k
Calls(k) == Within(hist[k].ev)

\* every call of an SF in step k
SFCalls(k) == {e \in Calls(k) : e.op = "call"}

Steps == 1..Len(hist)

RECURSIVE EulerSum(_)
\* dt_1*value_1 + ... + dt_k*value_k over the steps made so far
EulerSum(k) ==
    IF k = 0 THEN 0 ELSE EulerSum(k - 1) + hist[k].ev.dt * hist[k].ev.in.n

ScalarUpTo(k) == \A j \in 1..k : hist[j].ev.in.t = "num"

\* the seed as a number: 0 when omitted
SeedOf(c) == IF c.t = "num" THEN c.n ELSE 0

----------------------------------------------------------------------------
(* C7: integral(seed) is a running Euler sum returning the post-update     *)
(* accumulator: with scalar inputs the k-th call returns                   *)
(* seed + dt_1*value_1 + ... + dt_k*value_k (seed 0 when omitted), hence   *)
(* seed + N*dt*v after N calls with constant dt and v.                     *)
C7_IntegralRunningSum ==
    \A k \in Steps :
        ScalarUpTo(k) =>
            /\ hist[k].ev.out = Num(SeedOf(heap[root].c) + EulerSum(k))
            /\ (\A j \in 1..k : /\ hist[j].ev.dt = hist[1].ev.dt
                                /\ hist[j].ev.in = hist[1].ev.in)
                 => hist[k].ev.out.n
                      = SeedOf(heap[root].c) + k * hist[1].ev.dt * hist[1].ev.in.n

\* three steps of dt 2 on the input -1 from the seed 2
C7_Witness ==
    /\ Len(hist) = 3
    /\ heap[root].kind = "integral" /\ heap[root].c = Num(2)
    /\ \A k \in Steps : hist[k].ev.dt = 2 /\ hist[k].ev.in = Num(-1)
    /\ hist[3].ev.out = Num(-4)

\* an integral with no seed given starts from 0
C7_WitnessOmitted ==
    /\ Len(hist) = 2
    /\ heap[root].kind = "integral" /\ heap[root].c = Undef
    /\ hist[1].ev.dt = 1 /\ hist[1].ev.in = Num(1) /\ hist[1].ev.out = Num(1)
    /\ hist[2].ev.dt = 2 /\ hist[2].ev.in = Num(1) /\ hist[2].ev.out = Num(3)

----------------------------------------------------------------------------
(* C8: feedback(x0, sf) threads its last output as the next input and      *)
(* ignores the external input: the first call returns sf(dt_1, x0), the    *)
(* k-th call returns sf(dt_k, r_(k-1)), r_(k-1) being what call k-1        *)
(* returned, whatever input value is passed.                               *)
C8_FeedbackLag ==
    \A k \in Steps :
        LET e == hist[k].ev
            fed == IF k = 1 THEN hist[1].pre[root].initValue ELSE hist[k - 1].ev.out
        IN /\ Len(e.sub) = 1
           /\ e.sub[1].op = "call"
           /\ e.sub[1].id = heap[root].sf
           /\ e.sub[1].dt = e.dt
           /\ e.sub[1].in = fed
           /\ e.out = e.sub[1].out
           /\ hist[k].pre[root].initValue = fed

\* a second call whose external input differs from the value fed back
C8_Witness ==
    /\ Len(hist) >= 2
    /\ heap[root].kind = "feedback"
    /\ hist[1].ev.out.t = "num"
    /\ hist[2].ev.in # hist[1].ev.out
    /\ hist[2].ev.sub[1].in = hist[1].ev.out
    /\ hist[2].ev.out # hist[1].ev.out

----------------------------------------------------------------------------
(* C9: compose(sf1, ..., sfN), N >= 1: on each step every sf_i is invoked  *)
(* exactly once, in argument order, with the same dt; sf1 receives the     *)
(* external input, sf_(i+1) receives sf_i's output, and the composition    *)
(* returns sfN's output.                                                   *)
C9_ComposeThreads ==
    \A k \in Steps : \A e \in SFCalls(k) :
        heap[e.id].kind = "compose" =>
            LET sfs == heap[e.id].sfs
                N == Len(sfs)
            IN /\ Len(e.sub) = N
               /\ \A i \in 1..N : /\ e.sub[i].op = "call"
                                  /\ e.sub[i].id = sfs[i]
                                  /\ e.sub[i].dt = e.dt
                                  /\ e.sub[i].in = IF i = 1 THEN e.in ELSE e.sub[i - 1].out
               /\ N >= 1 => e.out = e.sub[N].out

\* a composition of three SFs whose middle output differs from its input
C9_Witness ==
    /\ Len(hist) >= 2
    /\ heap[root].kind = "compose" /\ Len(heap[root].sfs) = 3
    /\ LET e == hist[2].ev
       IN /\ e.dt = 2
          /\ e.sub[1].out # e.in
          /\ e.sub[2].out # e.sub[1].out
          /\ e.out = e.sub[3].out /\ e.out # e.sub[2].out

----------------------------------------------------------------------------
(* C10: fanout(f, sf1, ..., sfN): on each step every sf_i is invoked       *)
(* exactly once with the (dt, input) the fanout received, all before f; f  *)
(* is then invoked exactly once with exactly N positional arguments, the   *)
(* outputs of sf1..sfN for that step in argument order, and the fanout     *)
(* returns f's result.                                                     *)
C10_FanoutArity ==
    \A k \in Steps : \A e \in SFCalls(k) :
        heap[e.id].kind = "fanout" =>
            LET sfs == heap[e.id].sfs
                N == Len(sfs)
            IN /\ Len(e.sub) = N + 1
               /\ \A i \in 1..N : /\ e.sub[i].op = "call"
                                  /\ e.sub[i].id = sfs[i]
                                  /\ e.sub[i].dt = e.dt
                                  /\ e.sub[i].in = e.in
               /\ e.sub[N + 1].op = "f"
               /\ e.sub[N + 1].id = e.id
               /\ e.sub[N + 1].args = [i \in 1..N |-> e.sub[i].out]
               /\ e.out = e.sub[N + 1].out

\* a fanout over three SFs whose outputs differ from each other and from the input
C10_Witness ==
    /\ Len(hist) >= 2
    /\ heap[root].kind = "fanout" /\ Len(heap[root].sfs) = 3
    /\ LET e == hist[2].ev
       IN /\ Len(e.sub[4].args) = 3
          /\ e.sub[1].out # e.sub[2].out
          /\ e.sub[2].out # e.sub[3].out
          /\ e.sub[1].out # e.in
          /\ e.out = Arr(<<e.sub[1].out, e.sub[2].out, e.sub[3].out>>)

----------------------------------------------------------------------------
(* Reading the history of a switch *)

\* the calls of the dSwitch closures in step k
SwitchCalls(k) == {e \in SFCalls(k) : heap[e.id].kind = "dSwitch"}

\* the switch d was closed when step k began
ClosedAt(k, d) == d \in DOMAIN hist[k].pre /\ Truthy(hist[k].pre[d].switchedSF)

\* the calls of d's predicate and of d's makeSF in step k
PredEv(k, d) == {e \in Calls(k) : e.op = "predicate" /\ e.id = d}
MakeEv(k, d) == {e \in Calls(k) : e.op = "makeSF" /\ e.id = d}

\* the steps in which d's makeSF was called
MakeSteps(d) == {k \in Steps : MakeEv(k, d) # {}}

\* the steps in which d's predicate returned a truthy value
TriggerSteps(d) == {k \in Steps : \E e \in PredEv(k, d) : Truthy(e.out)}

\* the closures built during step k
BuiltIn(k) ==
    (1..Len(IF k = Len(hist) THEN heap ELSE hist[k + 1].pre)) \ (1..Len(hist[k].pre))

Switches == {d \in 1..Len(heap) : heap[d].kind = "dSwitch"}

----------------------------------------------------------------------------
(* C1: dSwitch is delayed: on the call in the open state where             *)
(* predicate(value) holds, the call still returns the value the original   *)
(* sf computed for that step, and the SF built by makeSF is not called in  *)
(* that step; it produces the switch's output from the next call on.       *)
C1_DelayedSwitch ==
    \A k \in Steps : \A e \in SwitchCalls(k) :
        (~ClosedAt(k, e.id) /\ k \in TriggerSteps(e.id)) =>
            /\ e.sub[1].op = "call"
            /\ e.sub[1].id = heap[e.id].sf
            /\ e.sub[1].dt = e.dt /\ e.sub[1].in = e.in
            /\ e.out = e.sub[1].out
            /\ \A c \in SFCalls(k) : c.id \notin BuiltIn(k)
            /\ \A m \in MakeEv(k, e.id) :
                 (m.out.t = "sf" /\ k < Len(hist)) =>
                    \A n \in SwitchCalls(k + 1) :
                        n.id = e.id =>
                            /\ n.sub[1].op = "call"
                            /\ n.sub[1].id = m.out.id
                            /\ n.out = n.sub[1].out

\* a switch triggered in step 1 returned sf's value, and in step 2 returned
\* a different value, the replacement's
C1_Witness ==
    /\ Len(hist) >= 2
    /\ heap[root].kind = "dSwitch"
    /\ 1 \in TriggerSteps(root)
    /\ hist[1].ev.out = Num(2)
    /\ heap[root].switchedSF.t = "sf"
    /\ hist[2].ev.sub[1].id = heap[root].switchedSF.id
    /\ hist[2].ev.out = Num(4)

----------------------------------------------------------------------------
(* C2: the transition is one-way and permanent: once the switch has        *)
(* closed, every later call returns exactly the stored replacement SF's    *)
(* result for that (dt, input), the switch never returns to open, and the  *)
(* original sf, predicate and makeSF are never invoked again.              *)
C2_ClosedIsPermanent ==
    \A k \in Steps : \A d \in Switches :
        ClosedAt(k, d) =>
            LET sw == hist[k].pre[d].switchedSF
            IN /\ heap[d].switchedSF = sw
               /\ \A j \in k..Len(hist) : hist[j].pre[d].switchedSF = sw
               /\ PredEv(k, d) = {} /\ MakeEv(k, d) = {}
               /\ \A c \in SFCalls(k) : c.id # heap[d].sf
               /\ \A e \in SwitchCalls(k) :
                    e.id = d =>
                        /\ Len(e.sub) = 1
                        /\ e.sub[1].op = "call"
                        /\ e.sub[1].id = sw.id
                        /\ e.sub[1].dt = e.dt /\ e.sub[1].in = e.in
                        /\ e.out = e.sub[1].out

\* a switch closed in step 1 is called twice more with inputs on which the
\* original sf would have answered
C2_Witness ==
    /\ Len(hist) = 3
    /\ heap[root].kind = "dSwitch"
    /\ ClosedAt(2, root)
    /\ hist[2].ev.in = Num(1) /\ hist[2].ev.dt = 1
    /\ hist[3].ev.in = Num(-1) /\ hist[3].ev.dt = 2
    /\ hist[3].ev.sub[1].id = hist[2].pre[root].switchedSF.id

----------------------------------------------------------------------------
(* C3, as stated: for one dSwitch, over any sequence of calls, makeSF is   *)
(* invoked (at most) once, with the value the original sf produced on the  *)
(* first step where predicate returned true.                               *)
C3_MakeSFOnce ==
    \A d \in Switches :
        /\ Cardinality(MakeSteps(d)) <= 1
        /\ TriggerSteps(d) # {} => Cardinality(MakeSteps(d)) = 1
        /\ \A k \in MakeSteps(d) :
             /\ \A j \in TriggerSteps(d) : k <= j
             /\ \A m \in MakeEv(k, d) : \A e \in SwitchCalls(k) :
                  e.id = d => m.args = <<e.sub[1].out>>

(* C3, amended: makeSF is invoked in exactly the steps of the open switch  *)
(* in which predicate returned true, each time with the value the original *)
(* sf produced in that same step; once it has returned a truthy value (the *)
(* replacement SF) it is never invoked again, so a makeSF that returns an  *)
(* SF is invoked exactly once, on the first step where predicate held.     *)
C3_MakeSFOncePerClosing ==
    \A d \in Switches :
        /\ MakeSteps(d) = TriggerSteps(d)
        /\ \A k \in MakeSteps(d) :
             /\ \A m \in MakeEv(k, d) : \A e \in SwitchCalls(k) :
                  e.id = d => /\ e.sub[1].id = heap[d].sf
                              /\ m.args = <<e.sub[1].out>>
             /\ \A j \in MakeSteps(d) :
                  j < k => \A m \in MakeEv(j, d) : ~Truthy(m.out)
        /\ (\E k \in MakeSteps(d) : \E m \in MakeEv(k, d) : Truthy(m.out))
             => Cardinality(MakeSteps(d)) = 1

\* makeSF was called in step 1 with sf's output 2, which is not the input,
\* and two more steps followed on which the original sf would have triggered
C3_Witness ==
    /\ Len(hist) = 3
    /\ heap[root].kind = "dSwitch"
    /\ MakeSteps(root) = {1}
    /\ \E m \in MakeEv(1, root) : m.args = <<Num(2)>> /\ m.out.t = "sf"
    /\ hist[1].ev.in = Num(1)
    /\ \A k \in 2..3 : hist[k].ev.in = Num(1) /\ hist[k].ev.dt = 2

----------------------------------------------------------------------------
(* react(sf, input) *)

DefaultDt == 1     \* _.constant({ dt: 0.1 }), dt in tenths

\* a function value: the generator g
Fn(g) == [t |-> "fn", g |-> g]

ReactValues == {Bool(TRUE), Bool(FALSE), Undef, Num(0), Num(1)}
ReactSteps == [dt : {1, 2}, value : ReactValues]

\* the steps fed to SFs whose client functions reject some values
CheckedValues == {Bool(TRUE), Bool(FALSE), Num(0), Num(-1), Num(Threshold)}
CheckedSteps == [dt : {DefaultDt}, value : CheckedValues]

\* what a generator returns when called: _.constant({ dt: 0.1 }) or a
\* client's generator, which may return any step
Generate(g) ==
    CASE g = "constant" -> {[dt |-> DefaultDt, value |-> Undef]}
      [] g = "double" -> {[dt |-> 2 * DefaultDt, value |-> Undef]}   \* _.constant({ dt: 0.2 })
      [] g = "still" -> {[dt |-> 0, value |-> Undef]}                \* _.constant({ dt: 0 })
      [] g = "checked" -> CheckedSteps
      [] OTHER -> ReactSteps

\* react stops looping here when the SF never ends it
MaxReact == Limit + 2

ArrayInputs == {Arr(a) : a \in UNION {[1..n -> ReactSteps] : n \in 0..MaxArr}}

\* the root SFs react is given: the step's value itself; the tests'
\* i++ < 100 after a model; the examples' time() then t < 10; a model
\* alone, whose values are all truthy
RootId == Graph(<<lift("id")>>)
RootCount == Graph(<<lift("id"), lift("countLt"), compose(<<1, 2>>)>>)
RootTime ==
    Graph(Append(Append(time(<<lift("log")>>), lift("ltT")), compose(<<1, 4, 5>>)))
RootModel == Graph(<<constant(Num(1))>>)

\* compose(bouncingBall(10.0, 0), lift(log), time(), lift(t < 10))
RootBall ==
    LET model == bouncingBall(<< >>, Num(10 * Metre), Num(0))
        logged == Alloc(model, lift("log"))
        clock == time(logged)
        test == Alloc(clock, lift("ltT"))
    IN Graph(Alloc(test, compose(<<Len(model), Len(logged), Len(clock), Len(test)>>)))

\* the calls of react: the SF, the input (omitted, a generator, an array,
\* something else) and a third argument (none, or an output callback as in
\* test.js)
ReactArgs ==
    [g : {RootId, RootCount}, input : {Undef, Fn("constant"), Fn("any")},
     output : {Undef, Fn("countLt")}]
    \cup [g : {RootTime, RootModel, RootBall}, input : {Undef, Fn("constant")},
          output : {Undef, Fn("countLt")}]
    \cup [g : {RootId, RootCount}, input : ArrayInputs, output : {Undef}]
    \cup [g : {RootId}, input : {Num(0), Num(1)}, output : {Undef}]

InitReact ==
    /\ \E a \in ReactArgs :
          /\ heap = a.g.h /\ root = a.g.root
          /\ input = a.input
          /\ output = a.output
    /\ hist = << >>
    /\ pc = "react"
    /\ step = Undef
    /\ cont = Undef
    /\ pos = 1
    /\ nInput = 0

\* input = input || _.constant({ dt: 0.1 }) and the choice of the path
ReactEnter ==
    /\ pc = "react"
    /\ LET in == OrElse(input, Fn("constant"))
       IN /\ input' = in
          /\ IF in.t = "fn" THEN pc' = "while" /\ cont' = Bool(TRUE)
             ELSE IF in.t = "arr" THEN pc' = "forEach" /\ cont' = cont
             ELSE pc' = "done" /\ cont' = cont
    /\ UNCHANGED <<heap, root, hist, output, step, pos, nInput>>

\* faulty variant: while (true): cont is not tested
GenInputNoTest ==
    /\ pc = "while"
    /\ Len(hist) < MaxReact
    /\ \E s \in Generate(input.g) : step' = s
    /\ nInput' = nInput + 1
    /\ pc' = "sf"
    /\ UNCHANGED <<heap, root, hist, input, output, cont, pos>>

\* while (cont) { var step = input();
GenInput ==
    /\ pc = "while"
    /\ Truthy(cont)
    /\ Len(hist) < MaxReact
    /\ \E s \in Generate(input.g) : step' = s
    /\ nInput' = nInput + 1
    /\ pc' = "sf"
    /\ UNCHANGED <<heap, root, hist, input, output, cont, pos>>

\* faulty variant: cont = sf(step.dt, step.value) === true
GenSFStrict ==
    /\ pc = "sf"
    /\ LET r == Call(heap, root, step.dt, step.value)
       IN /\ heap' = r.h
          /\ hist' = Append(hist, Done(r, heap))
          /\ IF r.err THEN pc' = "thrown" /\ cont' = cont
             ELSE pc' = "while" /\ cont' = Bool(r.out = Bool(TRUE))
    /\ UNCHANGED <<root, input, output, step, pos, nInput>>

\* faulty variant: the call stands in try { } catch (e) { }: the loop goes on
GenSFCatch ==
    /\ pc = "sf"
    /\ LET r == Call(heap, root, step.dt, step.value)
       IN /\ heap' = r.h
          /\ hist' = Append(hist, Done(r, heap))
          /\ pc' = "while"
          /\ cont' = IF r.err THEN cont ELSE r.out
    /\ UNCHANGED <<root, input, output, step, pos, nInput>>

\* cont = sf(step.dt, step.value); }
GenSF ==
    /\ pc = "sf"
    /\ LET r == Call(heap, root, step.dt, step.value)
       IN /\ heap' = r.h
          /\ hist' = Append(hist, Done(r, heap))
          /\ IF r.err THEN pc' = "thrown" /\ cont' = cont
             ELSE pc' = "while" /\ cont' = r.out
    /\ UNCHANGED <<root, input, output, step, pos, nInput>>

\* while (cont) fails: react returns
GenExit ==
    /\ pc = "while"
    /\ ~Truthy(cont)
    /\ pc' = "done"
    /\ UNCHANGED <<heap, root, hist, input, output, step, cont, pos, nInput>>

\* faulty variant: the callback returns nothing: no result ends the iteration
ForEachStepNoReturn ==
    /\ pc = "forEach"
    /\ pos <= Len(input.a)
    /\ LET r == Call(heap, root, input.a[pos].dt, input.a[pos].value)
       IN /\ heap' = r.h
          /\ hist' = Append(hist, Done(r, heap))
          /\ pc' = IF r.err THEN "thrown" ELSE "forEach"
    /\ pos' = pos + 1
    /\ UNCHANGED <<root, input, output, step, cont, nInput>>

\* faulty variant: the iteration ends on any falsy result, as the while loop does
ForEachStepFalsy ==
    /\ pc = "forEach"
    /\ pos <= Len(input.a)
    /\ LET r == Call(heap, root, input.a[pos].dt, input.a[pos].value)
       IN /\ heap' = r.h
          /\ hist' = Append(hist, Done(r, heap))
          /\ pc' = IF r.err THEN "thrown"
                   ELSE IF ~Truthy(r.out) THEN "done" ELSE "forEach"
    /\ pos' = pos + 1
    /\ UNCHANGED <<root, input, output, step, cont, nInput>>

\* one round of _.forEach(input, function (step) { return sf(step.dt, step.value); }),
\* which ends the iteration when the callback returns false
ForEachStep ==
    /\ pc = "forEach"
    /\ pos <= Len(input.a)
    /\ LET r == Call(heap, root, input.a[pos].dt, input.a[pos].value)
       IN /\ heap' = r.h
          /\ hist' = Append(hist, Done(r, heap))
          /\ pc' = IF r.err THEN "thrown"
                   ELSE IF r.out = Bool(FALSE) THEN "done" ELSE "forEach"
    /\ pos' = pos + 1
    /\ UNCHANGED <<root, input, output, step, cont, nInput>>

\* _.forEach has visited every element: react returns
ForEachEnd ==
    /\ pc = "forEach"
    /\ pos > Len(input.a)
    /\ pc' = "done"
    /\ UNCHANGED <<heap, root, hist, input, output, step, cont, pos, nInput>>

NextReact ==
    \/ ReactEnter
    \/ GenInput
    \/ GenSF
    \/ GenExit
    \/ ForEachStep
    \/ ForEachEnd

SpecReact == InitReact /\ [][NextReact]_vars

----------------------------------------------------------------------------
(* Reading react's state *)

\* react has taken the generator path / the array path
GenPath == pc # "react" /\ input.t = "fn"
ArrPath == pc # "react" /\ input.t = "arr"

LastOut == hist[Len(hist)].ev.out

----------------------------------------------------------------------------
(* C4: boolean-terminated react with a generator: input() is called once   *)
(* before each sf invocation, the loop continues while sf's result is      *)
(* truthy, and when the k-th call of sf is the first to return false,      *)
(* react has made exactly k invocations and returns.                       *)
C4_GeneratorStopsAtFirstFalse ==
    GenPath =>
        /\ nInput = Len(hist) + (IF pc = "sf" THEN 1 ELSE 0)
        /\ \A k \in Steps :
             /\ hist[k].ev.id = root
             /\ k < Len(hist) => Truthy(hist[k].ev.out)
             /\ hist[k].ev.out = Bool(FALSE) =>
                  /\ Len(hist) = k
                  /\ pc \in {"while", "done"}
        /\ (pc = "while" /\ hist # << >>) =>
             /\ cont = LastOut
             /\ hist[Len(hist)].ev.dt = step.dt
             /\ hist[Len(hist)].ev.in = step.value
        /\ (pc = "while" /\ ~Truthy(cont)) => (ENABLED GenExit /\ ~ENABLED GenInput)
        /\ pc = "done" => (hist # << >> /\ ~Truthy(LastOut))

\* the tests' i++ < Limit: react returned after Limit + 1 invocations, the
\* last one the first to return false
C4_Witness ==
    /\ GenPath /\ pc = "done"
    /\ heap[root].kind = "compose"
    /\ Len(hist) = Limit + 1
    /\ nInput = Limit + 1
    /\ LastOut = Bool(FALSE)
    /\ \A k \in 1..Limit : hist[k].ev.out = Bool(TRUE)

----------------------------------------------------------------------------
(* C5, as stated: react with an array input of length M always consumes    *)
(* the entire sequence: sf is invoked exactly M times whatever it returns. *)
C5_ArrayConsumesAll ==
    (ArrPath /\ pc = "done") => Len(hist) = Len(input.a)

(* C5, amended: react with an array input of length M invokes sf once per  *)
(* element, in sequence order, up to and including the first element for   *)
(* which sf returns the value false, which ends the iteration; when no     *)
(* result is false, exactly M invocations occur.  Other falsy results      *)
(* (undefined, 0) do not end it.                                           *)
C5_ArrayStopsOnlyAtFalse ==
    ArrPath =>
        /\ Len(hist) <= Len(input.a)
        /\ pos = Len(hist) + 1
        /\ \A k \in Steps :
             /\ hist[k].ev.id = root
             /\ hist[k].ev.dt = input.a[k].dt
             /\ hist[k].ev.in = input.a[k].value
             /\ k < Len(hist) => hist[k].ev.out # Bool(FALSE)
        /\ (pc = "forEach" /\ hist # << >>) => LastOut # Bool(FALSE)
        /\ pc = "done" => (Len(hist) = Len(input.a) \/ LastOut = Bool(FALSE))
        /\ pc \in {"forEach", "done"}

\* of three elements the first gave 0, which did not end the iteration,
\* and the second gave false, which did: the third was never fed to sf
C5_Witness ==
    /\ ArrPath /\ pc = "done"
    /\ Len(input.a) = 3 /\ Len(hist) = 2
    /\ hist[1].ev.out = Num(0)
    /\ hist[2].ev.out = Bool(FALSE)

----------------------------------------------------------------------------
(* C6: react(sf, input, output) with a generator: the loop stops after the *)
(* first step for which output returns falsy, even when sf's own results   *)
(* are always truthy: with an output that is true on its first Limit calls *)
(* and false on the next, sf is invoked exactly Limit + 1 times.           *)
C6_OutputStopsLoop ==
    (GenPath /\ output # Undef) => Len(hist) <= Limit + 1

----------------------------------------------------------------------------
(* Two groupings of one composition, stepped side by side *)

\* compose(compose(a, b), c) and compose(a, compose(b, c)), each over its
\* own fresh a, b, c: closures 1..5 are the left grouping, 6..10 the right
AssocPair(ks) ==
    [h |-> <<Leaf(ks[1]), Leaf(ks[2]), Leaf(ks[3]), compose(<<1, 2>>), compose(<<4, 3>>),
             Leaf(ks[1]), Leaf(ks[2]), Leaf(ks[3]), compose(<<7, 8>>), compose(<<6, 9>>)>>,
     root |-> 5]

AssocGraphs ==
    {AssocPair(ks) : ks \in {<<1, 4, 1>>, <<4, 2, 1>>, <<2, 1, 4>>, <<1, 2, 2>>}}

\* the closure of the right grouping that stands where id stands in the left
Mirror(id) == id + 5

\* root(dt, value), then the other grouping's root on the same (dt, value)
CallBoth(dt, value) ==
    /\ pc = "call"
    /\ Len(hist) < 2 * MaxCalls
    /\ LET l == Call(heap, root, dt, value)
           r == Call(l.h, Mirror(root), dt, value)
       IN /\ heap' = r.h
          /\ hist' = hist \o <<Done(l, heap), Done(r, l.h)>>
    /\ UNCHANGED <<root, pc, input, output, step, cont, pos, nInput>>

NextAssoc == \E dt \in DTs, value \in Nums : CallBoth(dt, value)

InitAssoc == InitOn(AssocGraphs)
SpecAssoc == InitAssoc /\ [][NextAssoc]_vars

\* the call of closure id made in step k
CallOf(k, id) == {e \in SFCalls(k) : e.id = id}

\* a call without the closure's name
Shape(e) == [dt |-> e.dt, in |-> e.in, out |-> e.out]

----------------------------------------------------------------------------
(* C11: compose is associative on behaviour: for stateful a, b, c,         *)
(* compose(compose(a, b), c) and compose(a, compose(b, c)) built from      *)
(* equal fresh constituents give, on every identical sequence of           *)
(* (dt, input) steps, identical outputs and identical constituent states.  *)
C11_ComposeAssociative ==
    /\ \A i \in 1..3 : heap[i] = heap[Mirror(i)]
    /\ \A j \in 1..(Len(hist) \div 2) :
         LET l == hist[2 * j - 1]
             r == hist[2 * j]
         IN /\ l.ev.id = root /\ r.ev.id = Mirror(root)
            /\ Shape(l.ev) = Shape(r.ev)
            /\ \A i \in 1..3 :
                 /\ l.pre[i] = r.pre[Mirror(i)]
                 /\ Cardinality(CallOf(2 * j - 1, i)) = 1
                 /\ {Shape(e) : e \in CallOf(2 * j - 1, i)}
                      = {Shape(e) : e \in CallOf(2 * j, Mirror(i))}

\* three steps of integral(1) >> lift(+1) >> integral(0) in both groupings:
\* the outputs 4, 9 then 1 are those of both, and the integrators moved
C11_Witness ==
    /\ Len(hist) = 6
    /\ heap[1] = integral(Num(1)) /\ heap[2].kind = "lift" /\ heap[3].c = Num(0)
    /\ hist[1].ev.dt = 2 /\ hist[1].ev.in = Num(1)
    /\ hist[2].ev.out = hist[1].ev.out /\ hist[1].ev.out # Num(0)
    /\ hist[4].ev.out = hist[3].ev.out /\ hist[3].ev.out # hist[1].ev.out
    /\ hist[6].ev.out = hist[5].ev.out /\ hist[5].ev.out # hist[3].ev.out
    /\ heap[8].accum = hist[6].ev.out

----------------------------------------------------------------------------
(* time() *)

\* one SF returned by time(); two of them, composed
TimeGraphs ==
    {Graph(time(<< >>)),
     LET h1 == time(<< >>)
         h2 == time(h1)
     IN Graph(Alloc(h2, compose(<<Len(h1), Len(h2)>>)))}

TimeInputs == {Num(-1), Num(1), Undef}

NextTime == \E dt \in DTs, value \in TimeInputs : CallSF(dt, value)

InitTime == InitOn(TimeGraphs)
SpecTime == InitTime /\ [][NextTime]_vars

RECURSIVE Elapsed(_)
\* dt_1 + ... + dt_k over the steps made so far
Elapsed(k) == IF k = 0 THEN 0 ELSE Elapsed(k - 1) + hist[k].ev.dt

\* the root is a composition of SFs returned by time(), not one of them
TwoClocks == heap[heap[root].sfs[1]].kind = "compose"

----------------------------------------------------------------------------
(* C12: each SF returned by time() outputs the cumulative elapsed time:    *)
(* its k-th output is dt_1 + ... + dt_k, whatever the input values are,    *)
(* starting from 0.                                                        *)
C12_TimeIsElapsed ==
    \A k \in Steps :
        LET e == hist[k].ev
        IN /\ e.out = Num(Elapsed(k))
           /\ TwoClocks => \A i \in 1..2 : e.sub[i].out = Num(Elapsed(k))
           /\ k = 1 => e.out = Num(e.dt)

\* three steps of different dt on different inputs, one of them undefined
C12_Witness ==
    /\ Len(hist) = 3
    /\ ~TwoClocks
    /\ hist[1].ev.dt = 1 /\ hist[1].ev.in = Num(-1) /\ hist[1].ev.out = Num(1)
    /\ hist[2].ev.dt = 2 /\ hist[2].ev.in = Undef /\ hist[2].ev.out = Num(3)
    /\ hist[3].ev.dt = 1 /\ hist[3].ev.in = Num(1) /\ hist[3].ev.out = Num(4)

----------------------------------------------------------------------------
(* integral on vectors *)

\* a vector of numbers
Vec(ns) == Arr([i \in 1..Len(ns) |-> Num(ns[i])])

VectorSeeds == {Undef, Num(0), Vec(<< >>), Vec(<<1>>), Vec(<<1, -2>>)}
VectorGraphs == {Graph(<<integral(c)>>) : c \in VectorSeeds}

VectorInputs == {Vec(<< >>), Vec(<<1>>), Vec(<<-1, 1>>), Vec(<<1, 1, -1>>)}

NextVector == \E dt \in {1, MaxDt}, value \in VectorInputs : CallSF(dt, value)

InitVector == InitOn(VectorGraphs)
SpecVector == InitVector /\ [][NextVector]_vars

\* accum[i] || 0 as a number, for an accumulator holding numbers
SlotOr0(accum, i) ==
    IF accum.t = "arr" /\ i <= Len(accum.a) THEN accum.a[i].n ELSE 0

\* the accumulator of the integral under test after step k
AccumAfter(k) == IF k = Len(hist) THEN heap[root].accum ELSE hist[k + 1].pre[root].accum

----------------------------------------------------------------------------
(* C13: integral on a vector input accumulates elementwise, a missing      *)
(* accumulator slot counting as 0: when accum is the scalar seed 0 or a    *)
(* vector shorter than the input, the call returns for every index i of    *)
(* the input (accum[i] or 0) + dt * value[i], and the accumulator grows to *)
(* the input's length.                                                     *)
C13_VectorElementwise ==
    \A k \in Steps :
        LET e == hist[k].ev
            accum == hist[k].pre[root].accum
            short == accum.t = "num" \/ Len(accum.a) < Len(e.in.a)
        IN short =>
             /\ e.out.t = "arr"
             /\ Len(e.out.a) = Len(e.in.a)
             /\ \A i \in 1..Len(e.in.a) :
                  e.out.a[i] = Num(SlotOr0(accum, i) + e.dt * e.in.a[i].n)
             /\ AccumAfter(k) = e.out

\* from no seed, a one-element step, then a three-element step that keeps
\* the first slot's sum and starts the two new slots from 0
C13_Witness ==
    /\ Len(hist) = 2
    /\ heap[root].c = Undef
    /\ hist[1].pre[root].accum = Num(0)
    /\ hist[1].ev.dt = 1 /\ hist[1].ev.in = Vec(<<1>>) /\ hist[1].ev.out = Vec(<<1>>)
    /\ hist[2].ev.dt = 2 /\ hist[2].ev.in = Vec(<<1, 1, -1>>)
    /\ hist[2].ev.out = Vec(<<3, 2, -2>>)
    /\ heap[root].accum = Vec(<<3, 2, -2>>)

----------------------------------------------------------------------------
(* The balls, stepped as react steps them by default: dt 0.1, no value *)

FallingGraphs ==
    {Graph(makeFallingBall(<< >>, Num(p * Metre), Num(v * PerSecond)))
        : p \in {5, 10}, v \in {0, 5}}

BouncingGraphs == {Graph(bouncingBall(<< >>, Num(10 * Metre), Num(0)))}

BallGraphs == FallingGraphs \cup BouncingGraphs

\* sf(step.dt, step.value) with step = { dt: 0.1 }
BallStep ==
    /\ pc = "call"
    /\ Len(hist) < BallSteps
    /\ LET r == Call(heap, root, DefaultDt, Undef)
       IN /\ heap' = r.h
          /\ hist' = Append(hist, Done(r, heap))
    /\ UNCHANGED <<root, pc, input, output, step, cont, pos, nInput>>

InitBall == InitOn(BallGraphs)
SpecBall == InitBall /\ [][BallStep]_vars

\* the ball under test falls without a floor; it is the tutorial's
\* makeFallingBall(10.0, 0)
Falling == heap[root].kind = "fanout"
Tutorial == Falling /\ hist # << >> /\ hist[1].pre[2].c = Num(0)
                    /\ hist[1].pre[4].c = Num(10 * Metre)

\* what step k reported
Ball(k) == hist[k].ev.out

----------------------------------------------------------------------------
(* C14: the falling-ball graph fanout(combiner, velocity,                  *)
(* compose(velocity, integral(10))), velocity = compose(constant(-9.8),    *)
(* integral(0)), driven with dt = 0.1, reproduces the documented trace in  *)
(* exact decimal arithmetic: step 1 reports vel = -0.98 and pos = 9.804,   *)
(* and step n reports vel = -0.98*(2n-1) and pos = 10 - 0.098*n*(n+1).     *)
(* (From the initial velocity v0 and position p0: vel = v0 - 0.98*(2n-1)   *)
(* and pos = p0 + 0.1*n*v0 - 0.098*n*(n+1).)                               *)
C14_FallingTrace ==
    Falling =>
        \A n \in Steps :
            LET v0 == hist[1].pre[2].c.n
                p0 == hist[1].pre[4].c.n
            IN /\ Ball(n) = Obj(Num(v0 + Gravity * (2 * n - 1)),
                                Num(p0 + n * v0 + Gravity * n * (n + 1)))
               /\ Tutorial =>
                    \* in hundredths and in thousandths
                    /\ Ball(n).vel.n = -98 * (2 * n - 1) * Unit
                    /\ Ball(n).pos.n = (10000 - 98 * n * (n + 1)) * Unit
                    /\ n = 1 => /\ Ball(1).vel.n = -98 * Unit
                                /\ Ball(1).pos.n = 9804 * Unit

\* the last line of the documented trace: { vel: -57.82, pos: -81.14 }
C14_Witness ==
    /\ Tutorial
    /\ Len(hist) = 30
    /\ Ball(30).vel.n = -5782 * Unit
    /\ Ball(30).pos.n = -81140 * Unit
    /\ Ball(2).vel.n = -294 * Unit
    /\ Ball(2).pos.n = 9412 * Unit

----------------------------------------------------------------------------
(* Reading the bouncing ball's run *)

Bouncing == heap[root].kind = "dSwitch"

\* the steps whose reported position is <= 0
Hits == {k \in Steps : Ball(k).pos.n <= 0}

\* the first of them
FirstHit == {k \in Hits : \A j \in Hits : k <= j}

\* the steps between two steps at which the reported velocity is negative
\* at the first and positive at the second: the sign flipped upwards
Rises == {k \in Steps : k < Len(hist) /\ Ball(k).vel.n < 0 /\ Ball(k + 1).vel.n > 0}

----------------------------------------------------------------------------
(* C15, as stated: bouncingBall(10, 0), gravity -9.8, dt = 0.1: at the     *)
(* step following the first step whose reported position is <= 0, the      *)
(* reported velocity has flipped sign and equals the triggering step's     *)
(* velocity scaled by -0.9; and once the ball is falling again afterwards  *)
(* (reported velocity negative), the sign never flips again.               *)
C15_SingleBounce ==
    Bouncing =>
        \A k \in FirstHit :
            k < Len(hist) =>
                /\ Ball(k).vel.n < 0 /\ Ball(k + 1).vel.n > 0
                /\ Ball(k + 1).vel = Reflect(Ball(k).vel)
                /\ \A j \in Steps :
                     (j > k /\ Ball(j).vel.n < 0) =>
                         \A i \in Steps : i > j => Ball(i).vel.n < 0

(* C15, amended: at the step following the first step whose reported       *)
(* position is <= 0 (step 10), the reported velocity has flipped sign and  *)
(* equals the triggering step's velocity scaled by -0.9 plus one step of   *)
(* gravity, -0.9 * v + 0.1 * (-9.8); the replacement is again a bouncing   *)
(* ball, so after the ball has fallen again the sign flips again, in the   *)
(* same way, at the step following the next step whose position is <= 0    *)
(* (step 28 after step 27).                                                *)
C15_BouncesAgain ==
    Bouncing =>
        /\ \A k \in Steps : Ball(k).vel.t = "num" /\ Ball(k).pos.t = "num"
        /\ Hits = Steps \cap {10, 27}
        /\ Rises = {k \in Hits : k < Len(hist)}
        /\ \A k \in Hits :
             k < Len(hist) =>
                 /\ Ball(k + 1).vel.n = Reflect(Ball(k).vel).n + DefaultDt * Gravity
                 /\ \E e \in SwitchCalls(k + 1) : e.id \in BuiltIn(k)

\* the ball hit the floor at step 10 with velocity -18.62, rose at 15.778,
\* fell again from step 20, hit the floor at step 27 and rose again
C15_Witness ==
    /\ Bouncing
    /\ Len(hist) >= 28
    /\ Ball(10).vel.n = -1862 * Unit /\ Ball(10).pos.n = -780 * Unit
    /\ Ball(11).vel.n = 157780
    /\ Ball(20).vel.n < 0
    /\ Ball(27).pos.n <= 0
    /\ Ball(28).vel.n = 130438

----------------------------------------------------------------------------
(* Switches whose predicate or makeSF throws, called by a caller that      *)
(* catches the exception and calls again                                   *)

ThrowingGraphs ==
    {Graph(<<integral(Num(0)), dSwitch(1, pm[1], pm[2])>>)
        : pm \in {<<"geChecked", "mkIntegral">>, <<"ge", "mkChecked">>,
                  <<"geChecked", "mkChecked">>, <<"ge", "mkThrows">>}}

InitThrowing == InitOn(ThrowingGraphs)
SpecThrowing == InitThrowing /\ [][NextSwitch]_vars

\* the heap when step k ended
HeapAfter(k) == IF k = Len(hist) THEN heap ELSE hist[k + 1].pre

\* the client functions of the switch d that threw in step k
ThrewIn(k, d) == {e \in PredEv(k, d) \cup MakeEv(k, d) : e.out = Thrown}

----------------------------------------------------------------------------
(* C16: dSwitch exception safety: if predicate or makeSF raises during a   *)
(* call in the open state, the error propagates to the caller and the      *)
(* switch is left in its pre-call state (still open, no replacement SF     *)
(* stored), so a later call again runs the original sf and consults        *)
(* predicate.                                                              *)
C16_ThrowLeavesSwitchOpen ==
    \A k \in Steps : \A d \in Switches :
        ThrewIn(k, d) # {} =>
            /\ ~ClosedAt(k, d)
            /\ hist[k].err /\ hist[k].ev.out = Thrown
            /\ HeapAfter(k)[d].switchedSF = hist[k].pre[d].switchedSF
            /\ HeapAfter(k)[d].switchedSF = Undef
            /\ Len(HeapAfter(k)) = Len(hist[k].pre)
            /\ k < Len(hist) =>
                 \A e \in SwitchCalls(k + 1) :
                     e.id = d => /\ e.sub[1].op = "call"
                                 /\ e.sub[1].id = heap[d].sf
                                 /\ PredEv(k + 1, d) # {}

\* makeSF threw in step 1 on sf's value Threshold; step 2 ran sf and the
\* predicate again and closed the switch; step 3 was the replacement's
C16_Witness ==
    /\ Len(hist) = 3
    /\ heap[root].makeSF = "mkChecked"
    /\ \E e \in MakeEv(1, root) : e.out = Thrown /\ e.args = <<Num(Threshold)>>
    /\ hist[1].err
    /\ ~hist[2].err /\ hist[2].ev.sub[1].id = heap[root].sf
    /\ \E e \in MakeEv(2, root) : e.out.t = "sf"
    /\ ClosedAt(3, root) /\ ~hist[3].err

\* the predicate threw in step 1 on a negative value; step 2 ran sf and
\* consulted the predicate again, which answered
C16_WitnessPredicate ==
    /\ Len(hist) = 2
    /\ heap[root].predicate = "geChecked"
    /\ \E e \in PredEv(1, root) : e.out = Thrown
    /\ hist[1].err
    /\ \E e \in PredEv(2, root) : e.out.t = "bool"
    /\ ~hist[2].err

----------------------------------------------------------------------------
(* react over SFs whose client functions throw on some values *)

\* a lift whose f throws, a fanout whose combiner throws, a switch whose
\* predicate and makeSF throw
RootChecked == Graph(<<lift("checked"), lift("countLt"), compose(<<1, 2>>)>>)
RootCombiner == Graph(<<lift("id"), fanout("firstChecked", <<1>>)>>)
RootSwitch == Graph(<<lift("id"), dSwitch(1, "geChecked", "mkChecked")>>)

CheckedArrays == {Arr(a) : a \in UNION {[1..n -> CheckedSteps] : n \in 0..MaxArr}}

CheckedArgs ==
    [g : {RootChecked, RootCombiner, RootSwitch},
     input : {Fn("checked")} \cup CheckedArrays]

InitChecked ==
    /\ \E a \in CheckedArgs :
          /\ heap = a.g.h /\ root = a.g.root
          /\ input = a.input
    /\ output = Undef
    /\ hist = << >>
    /\ pc = "react"
    /\ step = Undef
    /\ cont = Undef
    /\ pos = 1
    /\ nInput = 0

SpecChecked == InitChecked /\ [][NextReact]_vars

\* the client functions that threw in step k
Raised(k) == {e \in Calls(k) : e.op # "call" /\ e.out = Thrown}

----------------------------------------------------------------------------
(* C17: the first error aborts the whole run: if a client function (lift's *)
(* f, a fanout combiner, a dSwitch predicate or makeSF) raises during step *)
(* k of react, the error propagates out of react uncaught and no further   *)
(* input() or sf invocation occurs after it, in both the generator and the *)
(* array path.                                                             *)
C17_FirstErrorAborts ==
    /\ \A k \in Steps :
         Raised(k) # {} =>
             /\ hist[k].err
             /\ k = Len(hist)
             /\ pc = "thrown"
             /\ GenPath => nInput = k
             /\ ArrPath => pos = k + 1
    /\ pc = "thrown" =>
         /\ Raised(Len(hist)) # {}
         /\ ~ENABLED NextReact
    /\ \A k \in Steps : hist[k].err => Raised(k) # {}

\* generator path: the switch's makeSF threw in the second step
C17_Witness ==
    /\ GenPath /\ pc = "thrown"
    /\ Len(hist) = 2
    /\ heap[root].kind = "dSwitch"
    /\ \E e \in Raised(2) : e.op = "makeSF"

\* array path: lift's f threw on the first of three elements
C17_WitnessArray ==
    /\ ArrPath /\ pc = "thrown"
    /\ Len(input.a) = 3 /\ Len(hist) = 1
    /\ \E e \in Raised(1) : e.op = "f" /\ heap[e.id].kind = "lift"

----------------------------------------------------------------------------
(* C18, as stated: in the boolean-terminated react a non-boolean value     *)
(* returned by the root SF is a contract violation that propagates         *)
(* immediately and terminates the driver loop: after a step whose result   *)
(* is not true or false, no further sf invocation occurs.                  *)
C18_NonBooleanAborts ==
    GenPath =>
        \A k \in Steps :
            hist[k].ev.out.t # "bool" =>
                /\ k = Len(hist)
                /\ hist[k].err

(* C18, amended: react does not check the type of the root SF's result: it *)
(* raises no error and applies truthiness.  After a step whose result is a *)
(* truthy non-boolean (an object, a non-zero number) the loop continues    *)
(* with the next input() and sf invocation; after a falsy non-boolean      *)
(* (undefined, 0) it ends silently, as after false.                        *)
C18_TruthinessDecides ==
    GenPath =>
        /\ pc # "thrown"
        /\ \A k \in Steps : ~hist[k].err
        /\ \A k \in Steps : k < Len(hist) => Truthy(hist[k].ev.out)
        /\ (pc = "while" /\ hist # << >> /\ LastOut.t # "bool") =>
             IF Truthy(LastOut)
             THEN /\ ~ENABLED GenExit
                  /\ Len(hist) < MaxReact => ENABLED GenInput
             ELSE ENABLED GenExit /\ ~ENABLED GenInput
        /\ pc = "done" => ~Truthy(LastOut)

\* the results 1 and 1 were followed by further invocations, the result
\* undefined ended the loop, and react returned without an error
C18_Witness ==
    /\ GenPath /\ pc = "done"
    /\ Len(hist) = 3
    /\ hist[1].ev.out = Num(1) /\ hist[2].ev.out = Num(1)
    /\ hist[3].ev.out = Undef
    /\ nInput = 3

----------------------------------------------------------------------------
(* Counting the calls of one closure within a step *)

RECURSIVE CountIn(_, _)
RECURSIVE CountSeq(_, _)
\* how many times the closure id was called by the call e and below it
CountIn(e, id) ==
    IF e.op # "call" THEN 0
    ELSE (IF e.id = id THEN 1 ELSE 0) + CountSeq(e.sub, id)

CountSeq(es, id) ==
    IF es = << >> THEN 0 ELSE CountIn(Head(es), id) + CountSeq(Tail(es), id)

\* the closures that own state, as step k found them
Stateful(k) ==
    {id \in 1..Len(hist[k].pre) :
        hist[k].pre[id].kind \in {"integral", "feedback", "dSwitch"}}

----------------------------------------------------------------------------
(* C19: within one outer driver step every stateful SF instance of the     *)
(* graph (integral accumulator, feedback cell, switch) is invoked at most  *)
(* once, so its state is advanced by at most one dt per outer step; in     *)
(* particular for the bouncing-ball graph, whose velocity SF instance is   *)
(* passed both to fanout and to the position compose.                      *)
C19_AtMostOncePerStep ==
    \A k \in Steps : \A id \in Stateful(k) :
        /\ CountIn(hist[k].ev, id) <= 1
        /\ \A e \in CallOf(k, id) :
             hist[k].pre[id].kind = "integral" =>
                 HeapAfter(k)[id].accum = Plus(hist[k].pre[id].accum, Times(e.dt, e.in))

----------------------------------------------------------------------------
(* Reading the side effects *)

\* the lifts over the side effect (console.log)
Loggers == {id \in 1..Len(heap) : heap[id].kind = "lift" /\ heap[id].f = "log"}

\* the side effects performed in step k
SideEffects(k) == {e \in Calls(k) : e.op = "f" /\ e.id \in Loggers}

----------------------------------------------------------------------------
(* C20: output-then-stop ordering: in react(compose(model,                 *)
(* lift(sideEffect), time(), lift(t < T))) the side effect of a step       *)
(* always happens before that step's continuation value is examined, so    *)
(* the side effect is performed for every step including the final one     *)
(* that returns falsy; the number of side effects equals the number of sf  *)
(* invocations.                                                            *)
C20_OutputThenStop ==
    (GenPath /\ Loggers # {}) =>
        /\ \A k \in Steps :
             LET e == hist[k].ev
                 N == Len(e.sub)
             IN /\ \A id \in Loggers : CountIn(e, id) = 1
                /\ Cardinality(SideEffects(k)) = 1
                /\ e.sub[N - 2].id \in Loggers
                /\ e.sub[N - 2].sub = <<CEv("f", e.sub[N - 2].id, <<e.sub[N - 2].in>>, Undef)>>
                /\ heap[e.sub[N].id].f = "ltT"
                /\ e.out = e.sub[N].out
        /\ pc = "while" /\ hist # << >> => cont = LastOut
        /\ pc = "done" =>
             /\ ~Truthy(LastOut)
             /\ SideEffects(Len(hist)) # {}

\* the bouncing ball's run ended after StopTime steps: the last step
\* returned false and its ball was logged like the others
C20_Witness ==
    /\ GenPath /\ pc = "done"
    /\ heap[root].kind = "compose"
    /\ heap[heap[root].sfs[1]].kind = "dSwitch"
    /\ Len(hist) = StopTime
    /\ LastOut = Bool(FALSE)
    /\ \A k \in Steps :
         \E e \in SideEffects(k) : e.args = <<hist[k].ev.sub[1].out>> /\ e.args[1].t = "obj"

----------------------------------------------------------------------------
(* react stopped by time(): the root ends in time() and lift(t < T), the   *)
(* generator returns one constant step                                     *)

\* compose(makeFallingBall(10.0, 0), lift(console.log), time(), lift(t < 3))
RootTutorial ==
    LET model == makeFallingBall(<< >>, Num(10 * Metre), Num(0))
        logged == Alloc(model, lift("log"))
        clock == time(logged)
        test == Alloc(clock, lift("ltTutorial"))
    IN Graph(Alloc(test, compose(<<Len(model), Len(logged), Len(clock), Len(test)>>)))

StopArgs ==
    [g : {RootTime, RootTutorial},
     input : {Undef, Fn("constant"), Fn("double"), Fn("still")}]

InitStop ==
    /\ \E a \in StopArgs :
          /\ heap = a.g.h /\ root = a.g.root
          /\ input = a.input
    /\ output = Undef
    /\ hist = << >>
    /\ pc = "react"
    /\ step = Undef
    /\ cont = Undef
    /\ pos = 1
    /\ nInput = 0

\* while (cont) { var step = input(); followed for MaxLoop rounds
GenInputLong ==
    /\ pc = "while"
    /\ Truthy(cont)
    /\ Len(hist) < MaxLoop
    /\ \E s \in Generate(input.g) : step' = s
    /\ nInput' = nInput + 1
    /\ pc' = "sf"
    /\ UNCHANGED <<heap, root, hist, input, output, cont, pos>>

NextStop ==
    \/ ReactEnter
    \/ GenInputLong
    \/ GenSF
    \/ GenExit

\* the call of sf returns or throws: the loop's body goes on after it
SFReturns == pc = "sf" /\ pc' \in {"while", "thrown"}

\* react is one synchronous loop: while it can take a step, it does
SpecStop ==
    /\ InitStop /\ [][NextStop]_vars
    /\ WF_vars(ReactEnter) /\ WF_vars(GenInputLong) /\ WF_pc(SFReturns)
    /\ WF_vars(GenExit)

\* the T of the root's last SF, lift(t < T)
StopAt == IF heap[heap[root].sfs[Len(heap[root].sfs)]].f = "ltT" THEN StopTime
          ELSE TutorialTime

\* the generator's dt is 0; it is positive
Still == input # Undef /\ input.g = "still"
Moving == ~Still

\* react returned after the first step at which the time reached T
StoppedAtT ==
    /\ \A k \in Steps : hist[k].ev.out = Bool(Elapsed(k) < StopAt)
    /\ \A k \in Steps : k < Len(hist) => Elapsed(k) < StopAt
    /\ pc = "done" => /\ hist # << >>
                      /\ Elapsed(Len(hist)) >= StopAt
                      /\ nInput = Len(hist)
    /\ (pc = "done" /\ StopAt = TutorialTime /\ hist[1].ev.dt = DefaultDt)
         => Len(hist) * DefaultDt = TutorialTime

\* with dt = 0 no step changes anything and every step returns true
NeverStops ==
    Still => /\ pc # "done"
             /\ \A k \in Steps : /\ hist[k].ev.out = Bool(TRUE)
                                /\ HeapAfter(k) = hist[k].pre
             /\ pc = "while" => ~ENABLED GenExit

----------------------------------------------------------------------------
(* C21: termination by a composed time-based stop condition: for a root SF *)
(* ending in time() followed by lift(t < T) and a generator yielding a     *)
(* constant dt > 0, react eventually returns, after exactly the first step *)
(* at which the cumulative time is >= T (with dt = 0.1 and T = 3 in exact  *)
(* arithmetic, exactly 30 invocations); with dt = 0 the loop never         *)
(* terminates.                                                             *)
C21_TimeStopsReact ==
    /\ [](StoppedAtT /\ NeverStops)
    /\ (Moving ~> pc = "done")

\* the tutorial's run returned after 30 invocations
C21_Witness ==
    /\ pc = "done"
    /\ StopAt = TutorialTime
    /\ Len(hist) = TutorialTime
    /\ hist[1].ev.dt = DefaultDt
    /\ hist[Len(hist) - 1].ev.out = Bool(TRUE) /\ LastOut = Bool(FALSE)

\* with dt = 0 the loop is in its last followed round, still going
C21_WitnessStill ==
    /\ Still /\ pc = "while" /\ Len(hist) = MaxLoop
    /\ Truthy(cont)

----------------------------------------------------------------------------
(* C22: in react's array path, iteration stops early exactly when sf       *)
(* returns the value false: no element after the first step whose sf       *)
(* result is strictly false is ever fed to sf, while other falsy results   *)
(* (undefined, 0) do not stop the iteration.                               *)
C22_ArrayStopsExactlyAtFalse ==
    [][/\ (ArrPath /\ pc = "forEach") =>
            IF hist' = hist
            THEN pos > Len(input.a) /\ pc' = "done"
            ELSE /\ hist' = Append(hist, hist'[Len(hist')])
                 /\ pos <= Len(input.a) /\ pos' = pos + 1
                 /\ LastOut' = Call(heap, root, input.a[pos].dt, input.a[pos].value).out
                 /\ pc' = "done" <=> LastOut' = Bool(FALSE)
                 /\ LastOut' \in {Undef, Num(0), Bool(TRUE), Num(1)} => pc' = "forEach"
       /\ (ArrPath /\ pc = "done") => hist' = hist
      ]_vars

\* of three elements the first gave undefined and the second 0, neither of
\* which ended the iteration; the third gave false with nothing left
C22_Witness ==
    /\ ArrPath /\ pc = "done"
    /\ Len(input.a) = 3 /\ Len(hist) = 3
    /\ hist[1].ev.out = Undef
    /\ hist[2].ev.out = Num(0)
    /\ hist[3].ev.out = Bool(FALSE)

\* false at the first of three elements: the two that follow, which sf
\* would have answered with true, were never fed to it
C22_WitnessEarly ==
    /\ ArrPath /\ pc = "done"
    /\ Len(input.a) = 3 /\ Len(hist) = 1
    /\ hist[1].ev.out = Bool(FALSE)
    /\ heap[root].kind = "lift"
    /\ input.a[2].value = Bool(TRUE) /\ input.a[3].value = Bool(TRUE)

----------------------------------------------------------------------------
(* C23: when predicate or makeSF raises during an open-state dSwitch call, *)
(* the original sf has already been stepped for that call and its state    *)
(* change persists (its integrator has accumulated that dt), so re-issuing *)
(* the same step after the error advances the inner SF a second time.      *)
C23_ThrowKeepsInnerStep ==
    \A k \in Steps : \A e \in SwitchCalls(k) :
        ThrewIn(k, e.id) # {} =>
            LET sf == heap[e.id].sf
                inner == e.sub[1]
                once == Plus(hist[k].pre[sf].accum, Times(e.dt, e.in))
            IN /\ inner.op = "call" /\ inner.id = sf
               /\ inner.dt = e.dt /\ inner.in = e.in
               /\ inner.out = once
               /\ HeapAfter(k)[sf].accum = once
               /\ \A x \in ThrewIn(k, e.id) : x.args = <<once>>
               /\ (/\ k < Len(hist)
                   /\ hist[k + 1].ev.dt = e.dt /\ hist[k + 1].ev.in = e.in)
                    => /\ hist[k + 1].ev.sub[1].id = sf
                       /\ hist[k + 1].ev.sub[1].out = Plus(once, Times(e.dt, e.in))
                       /\ HeapAfter(k + 1)[sf].accum = Plus(once, Times(e.dt, e.in))

\* makeSF threw in step 1 after the integral had gone from 0 to Threshold;
\* the same step issued again took the integral to twice that
C23_Witness ==
    /\ Len(hist) = 2
    /\ \E e \in MakeEv(1, root) : e.out = Thrown
    /\ hist[1].err /\ ~hist[2].err
    /\ hist[2].ev.dt = hist[1].ev.dt /\ hist[2].ev.in = hist[1].ev.in
    /\ hist[1].pre[heap[root].sf].accum = Num(0)
    /\ hist[2].pre[heap[root].sf].accum = Num(Threshold)
    /\ heap[heap[root].sf].accum = Num(2 * Threshold)

\* the predicate threw in step 1 on the integral's -1, and again in step 2
\* on its -2, the same step issued again
C23_WitnessPredicate ==
    /\ Len(hist) = 2
    /\ \E e \in PredEv(1, root) : e.out = Thrown /\ e.args = <<Num(-1)>>
    /\ \E e \in PredEv(2, root) : e.out = Thrown /\ e.args = <<Num(-2)>>
    /\ hist[2].ev.dt = hist[1].ev.dt /\ hist[2].ev.in = hist[1].ev.in

\* what the steps a..b added to slot i: dt * value[i] for each step whose
\* input has a slot i, starting again from 0 after a step whose input has none
RECURSIVE EulerSlot(_, _, _)
EulerSlot(a, b, i) ==
    IF b < a THEN 0
    ELSE IF i > Len(hist[b].ev.in.a) THEN 0
    ELSE EulerSlot(a, b - 1, i) + hist[b].ev.dt * hist[b].ev.in.a[i].n

----------------------------------------------------------------------------
(* C24: after any vector-input call to integral, the returned accumulator  *)
(* has exactly the length of that call's input: accumulator slots at       *)
(* indices beyond the current input's length are discarded, so a later     *)
(* longer input restarts those slots from 0 rather than from their earlier *)
(* accumulated value.                                                      *)
C24_VectorLengthFollowsInput ==
    \A k \in Steps :
        LET e == hist[k].ev
        IN e.in.t = "arr" =>
             /\ e.out.t = "arr"
             /\ Len(e.out.a) = Len(e.in.a)
             /\ AccumAfter(k) = e.out
             /\ \A j \in Steps :
                  j > k =>
                      \A i \in (Len(e.in.a) + 1)..Len(hist[j].ev.in.a) :
                          hist[j].ev.out.a[i].n =
                              EulerSlot(k + 1, j, i)

\* seeded [1, -2], a one-element step dropped the second slot; the next,
\* two-element step started it again from 0, not from -2
C24_Witness ==
    /\ Len(hist) = 2
    /\ hist[1].pre[root].accum = Vec(<<1, -2>>)
    /\ Len(hist[1].ev.in.a) = 1 /\ Len(hist[1].ev.out.a) = 1
    /\ hist[2].ev.in = Vec(<<-1, 1>>) /\ hist[2].ev.dt = 1
    /\ hist[2].ev.out.a[2] = Num(1)
    /\ heap[root].accum = hist[2].ev.out

----------------------------------------------------------------------------
(* Integrals over arrays the client built and shares *)

\* the arrays the client built: one given as a seed, one given as an input
SeedCell == 1
InputCell == 2
ClientArrays == <<array(<<Num(1), Num(-2)>>), array(<<Num(1), Num(1)>>)>>

\* an integral seeded with the client's array; feedback and integral given
\* the same array; orbit's shape, feedback(p, compose(lift(f), integral(v),
\* integral(p))), with the identity for f; two integrals given the same array
SharedGraphs ==
    {Graph(ClientArrays \o <<integral(Ref(SeedCell))>>),
     Graph(ClientArrays \o <<integral(Ref(SeedCell)), feedback(Ref(SeedCell), 3)>>),
     Graph(ClientArrays \o <<lift("id"), integral(Ref(InputCell)), integral(Ref(SeedCell)),
                             compose(<<3, 4, 5>>), feedback(Ref(SeedCell), 6)>>),
     Graph(ClientArrays \o <<integral(Ref(SeedCell)), integral(Ref(SeedCell)),
                             fanout("list", <<3, 4>>)>>)}

\* the client steps the SF with its input array, with the seed array
\* itself, or with a scalar
SharedInputs == {Ref(InputCell), Ref(SeedCell), Num(1), Undef}

NextShared == \E dt \in {1, MaxDt}, value \in SharedInputs : CallSF(dt, value)

InitShared == InitOn(SharedGraphs)
SpecShared == InitShared /\ [][NextShared]_vars

\* the client's arrays on the heap
Cells == {n \in 1..Len(heap) : heap[n].kind = "array"}

\* the calls of integrals in step k
IntegralCalls(k) == {e \in SFCalls(k) : heap[e.id].kind = "integral"}

----------------------------------------------------------------------------
(* C25: integral never mutates its seed array or its input array in place  *)
(* (each vector step stores and returns a newly built array), so a seed    *)
(* array shared with another SF, as orbit shares initialPos between        *)
(* feedback and integral, keeps its original contents after any number of  *)
(* steps.                                                                  *)
C25_SeedAndInputUntouched ==
    \A k \in Steps :
        /\ \A n \in Cells : /\ HeapAfter(k)[n] = hist[k].pre[n]
                             /\ HeapAfter(k)[n] = ClientArrays[n]
        /\ \A e \in IntegralCalls(k) :
             /\ HeapAfter(k)[e.id].c = hist[k].pre[e.id].c
             /\ HeapAfter(k)[e.id].accum = e.out
             /\ Deref(hist[k].pre, e.in).t = "arr" =>
                  /\ e.out.t = "arr"
                  /\ Len(e.out.a) = Len(Deref(hist[k].pre, e.in).a)

\* feedback and integral were given the same seed array; after three vector
\* steps the integral holds its own array and feedback the last output,
\* both unlike the seed, whose elements are those the client wrote
C25_Witness ==
    /\ Len(hist) = MaxCalls
    /\ heap[root].kind = "feedback"
    /\ \E i \in 1..Len(heap) :
         /\ heap[i].kind = "integral"
         /\ heap[i].c = Ref(SeedCell)
         /\ heap[i].accum.t = "arr"
         /\ heap[i].accum # Deref(heap, Ref(SeedCell))
         /\ heap[root].initValue = heap[i].accum
    /\ \A k \in Steps : hist[k].ev.sub[1].in = hist[k].pre[root].initValue
    /\ hist[1].pre[root].initValue = Ref(SeedCell)
    /\ heap[SeedCell].a = <<Num(1), Num(-2)>>

\* the seed array itself was given as the input of the integral seeded with
\* it: the step returned a new array and both uses of the seed found it whole
C25_WitnessInput ==
    /\ Len(hist) = 1
    /\ heap[root].kind = "integral"
    /\ hist[1].ev.in = Ref(SeedCell)
    /\ hist[1].ev.dt = 1
    /\ hist[1].ev.out = Vec(<<2, -4>>)
    /\ heap[SeedCell].a = <<Num(1), Num(-2)>>

----------------------------------------------------------------------------
(* C26: the dSwitch closes only if makeSF returns a truthy value: when     *)
(* predicate holds but makeSF returns a falsy value (undefined), the       *)
(* switch stays open, the next call again runs the original sf and         *)
(* predicate, and makeSF is invoked again on every later step where        *)
(* predicate holds.                                                        *)
C26_FalsyMakeSFKeepsOpen ==
    \A k \in Steps : \A e \in SwitchCalls(k) :
        ~ClosedAt(k, e.id) =>
            LET d == e.id
                closed == Truthy(HeapAfter(k)[d].switchedSF)
            IN /\ closed <=> \E m \in MakeEv(k, d) : Truthy(m.out)
               /\ (\E m \in MakeEv(k, d) : ~Truthy(m.out)) =>
                    /\ ~closed
                    /\ e.out = e.sub[1].out
                    /\ k < Len(hist) =>
                         \A n \in SwitchCalls(k + 1) :
                             n.id = d =>
                                 /\ n.sub[1].op = "call" /\ n.sub[1].id = heap[d].sf
                                 /\ PredEv(k + 1, d) # {}
                                 /\ (\E q \in PredEv(k + 1, d) : Truthy(q.out))
                                      <=> MakeEv(k + 1, d) # {}

\* the predicate failed in step 1 and held in steps 2 and 3: makeSF was
\* called in both, returned undefined in both, and the switch is open
C26_Witness ==
    /\ Len(hist) = 3
    /\ heap[root].kind = "dSwitch"
    /\ heap[heap[root].sf].kind = "integral"
    /\ MakeSteps(root) = {2, 3}
    /\ \A k \in {2, 3} : \A m \in MakeEv(k, root) : m.out = Undef
    /\ \A k \in Steps : hist[k].ev.sub[1].id = heap[root].sf
    /\ heap[root].switchedSF = Undef

====
